---- MODULE Spec2Model ----
(***************************************************************************)
(* Model of the FastAPI bot server built by app_factory.create_app:        *)
(* the JWT Auth Gate (auth_middleware.JWTAuthMiddleware), the middleware   *)
(* wrapper and routes (app_factory, api_routes), the message handler       *)
(* (message_handler.MessageHandler) and the request adapter                *)
(* (request_adapter.FastAPIToAioHttpRequestAdapter).                       *)
(*                                                                         *)
(* Strings are sequences of symbols.  A header symbol is either the        *)
(* separator " " or a run of non-space characters ("Bearer", "bearer",     *)
(* "t"); str.split(" ") therefore cuts exactly at the " " symbols.         *)
(* The token validator and the activity processor are external: each of    *)
(* their calls returns or raises, chosen by the environment.               *)
(***************************************************************************)
EXTENDS Integers, Sequences, FiniteSets, TLC

VARIABLES
    LOG_JWT_TOKENS,   \* auth_middleware.LOG_JWT_TOKENS, read from the environment at import
    auth_config,      \* JWTAuthMiddleware.auth_config
    token_validator,  \* JWTAuthMiddleware.token_validator: "JwtTokenValidator" or "None"
    pc,               \* position of the request in the pipeline
    request,          \* the inbound request: path, method, Authorization header
    claims_identity,  \* request.state.claims_identity: [set, id]
    gate,             \* what authenticate_request did: "none", "success", "rejected", "raised"
    error_response,   \* the error response authenticate_request returned (None: NoResponse)
    validatorSaid,    \* what the token validator's call did for this request
    response,         \* the response sent to the client
    escaped,          \* exception that left the middleware unhandled
    validateCalls,    \* tokens passed to token_validator.validate_token, in order
    anonCalls,        \* calls of token_validator.get_anonymous_claims
    idWrites,         \* assignments to request.state.claims_identity
    handlerRuns,      \* route handlers run (call_next reached a route)
    bodyReads,        \* calls of request.body()
    body,             \* the bytes request.body() returned
    adapter,          \* the FastAPIToAioHttpRequestAdapter of the request
    processorCalls,   \* calls of start_agent_process
    procSeen,         \* what get('claims_identity') returned to the processor
    procOutcome,      \* what start_agent_process did: nothing yet, returned a result, raised
    log,              \* records the auth_middleware logger emitted for this request
    probe,            \* an adapter under test on its own: its request, body and last call
    variant,          \* one request handled by one of the repository's server variants
    conc              \* the requests in flight at once, by request id

vars == <<LOG_JWT_TOKENS, auth_config, token_validator, pc, request, claims_identity, gate,
          error_response, validatorSaid, response, escaped, validateCalls, anonCalls,
          idWrites, handlerRuns, bodyReads, body, adapter, processorCalls, procSeen,
          procOutcome, log, probe, variant, conc>>

-----------------------------------------------------------------------------
(* Bounds *)

MaxHdrLen == 4

MaxBodyLen == 1

-----------------------------------------------------------------------------
(* Input domains *)

RECURSIVE SeqsUpTo(_, _)
SeqsUpTo(S, n) ==
    IF n = 0 THEN {<<>>}
    ELSE LET shorter == SeqsUpTo(S, n - 1)
         IN  shorter \cup {Append(s, x) : s \in {t \in shorter : Len(t) = n - 1}, x \in S}

HdrSymbols == {"Bearer", "bearer", " ", "t"}

HeaderValues == SeqsUpTo(HdrSymbols, MaxHdrLen)

Paths == {"/api/messages", "/api/messages/", "/health", "/"}

Methods == {"POST", "GET"}

ByteSymbols == {"{", "}", "1", "\\xff"}

Bodies == SeqsUpTo(ByteSymbols, MaxBodyLen)

\* auth configurations: absent (None), present without a CLIENT_ID attribute,
\* present with CLIENT_ID "" and present with a client identifier
AuthConfigs ==
    { [present |-> FALSE, hasClientId |-> FALSE, CLIENT_ID |-> <<>>],
      [present |-> TRUE,  hasClientId |-> FALSE, CLIENT_ID |-> <<>>],
      [present |-> TRUE,  hasClientId |-> TRUE,  CLIENT_ID |-> <<>>],
      [present |-> TRUE,  hasClientId |-> TRUE,  CLIENT_ID |-> <<"app-id">>] }

Messages == {"expired", "boom"}

Identities == {"alice", "bob"}

AnonymousIdentity == "Anonymous"

\* what a call of validate_token can do
ValidateOutcomes ==
    {[kind |-> "ok", id |-> i, msg |-> ""] : i \in Identities}
    \cup {[kind |-> k, id |-> "", msg |-> m] : k \in {"ValueError", "Exception"}, m \in Messages}

\* what a call of get_anonymous_claims can do
AnonOutcomes ==
    {[kind |-> "ok", id |-> AnonymousIdentity, msg |-> ""]}
    \cup {[kind |-> "Exception", id |-> "", msg |-> m] : m \in Messages}

-----------------------------------------------------------------------------
(* Values *)

NoException == [type |-> "none", msg |-> ""]

NotCalled == [kind |-> "not called", id |-> "", msg |-> ""]

NoResponse == [status |-> 0, key |-> "", text |-> <<>>]

NoIdentity == [set |-> FALSE, id |-> ""]

NoRequest == [path |-> "", method |-> "", hasAuth |-> FALSE, auth |-> <<>>]

NoOutcome == [kind |-> "none", hasBody |-> FALSE, body |-> <<>>, status |-> 0, msg |-> ""]

NoAdapter == [created |-> FALSE, body |-> <<>>, hasIdentity |-> FALSE, identity |-> "",
              configured |-> FALSE]

NoProbe == [built |-> FALSE, wire |-> <<>>, given |-> <<>>, body |-> <<>>, op |-> "none",
            key |-> <<>>, result |-> [kind |-> "none", str |-> "", seq |-> <<>>, flag |-> FALSE],
            prior |-> "none", streamReads |-> 0, state |-> NoIdentity, adapter |-> NoAdapter,
            log |-> <<>>]


NoGateResult == [success |-> TRUE, response |-> NoResponse, setsId |-> FALSE, id |-> "",
                 vcalls |-> <<>>, acalls |-> 0, raised |-> NoException]

NoVariant == [server |-> "none", pc |-> "idle", request |-> NoRequest, body |-> <<>>,
              gateRan |-> FALSE, result |-> NoGateResult, ref |-> NoGateResult, built |-> 0,
              identity |-> NoIdentity, response |-> NoResponse, processorCalls |-> 0]

NumRequests == 2

RequestIds == 1..NumRequests

IdleRequest == [pc |-> "idle", hasAuth |-> FALSE, state |-> NoIdentity, attached |-> NoIdentity,
                adapter |-> NoAdapter, procSaw |-> "unseen"]

NoConc == [r \in RequestIds |-> IdleRequest]

JSONResponse(content_key, content_text, status_code) ==
    [status |-> status_code, key |-> content_key, text |-> content_text]

\* the result of authenticate_request and what it did on the way
GateResult(success, resp, setsId, id, vcalls, acalls, exc) ==
    [success |-> success, response |-> resp, setsId |-> setsId, id |-> id,
     vcalls |-> vcalls, acalls |-> acalls, raised |-> exc]

-----------------------------------------------------------------------------
(* auth_middleware.py: the Auth Gate *)

\* str.split(" "): cut at every " " symbol; "" splits into one empty part
RECURSIVE SplitAcc(_, _, _)
SplitAcc(s, i, parts) ==
    IF i > Len(s) THEN parts
    ELSE IF s[i] = " " THEN SplitAcc(s, i + 1, Append(parts, <<>>))
    ELSE SplitAcc(s, i + 1, [parts EXCEPT ![Len(parts)] = Append(@, s[i])])

Split(s) == SplitAcc(s, 1, << <<>> >>)

\* JWTAuthMiddleware.__init__: the validator is built only from a truthy configuration
MakeValidator(cfg) == IF cfg.present THEN "JwtTokenValidator" ELSE "None"

\* JWTAuthMiddleware._extract_token: None unless the header is "Bearer", " ", token
ExtractToken(auth_header) ==
    LET parts == Split(auth_header)
    IN  IF Len(parts) # 2 \/ parts[1] # <<"Bearer">>
        THEN [isNone |-> TRUE, token |-> <<>>]
        ELSE [isNone |-> FALSE, token |-> parts[2]]

\* variant of _validate_token with one "except Exception" clause for every fault
ValidateToken_OneExceptClause(validator, auth_header, vout) ==
    LET parts == Split(auth_header)
    IN  IF Len(parts) # 2 \/ parts[1] # <<"Bearer">> \/ parts[2] = <<>>
        THEN GateResult(FALSE,
                 JSONResponse("error", <<"Invalid Authorization header format">>, 401),
                 FALSE, "", <<>>, 0, NoException)
        ELSE IF validator = "None"
        THEN GateResult(FALSE,
                 JSONResponse("error", <<"Authentication error: ",
                     "'NoneType' object has no attribute 'validate_token'">>, 401),
                 FALSE, "", <<>>, 0, NoException)
        ELSE IF vout.kind = "ok"
        THEN GateResult(TRUE, NoResponse, TRUE, vout.id, <<parts[2]>>, 0, NoException)
        ELSE GateResult(FALSE,
                 JSONResponse("error", <<"Authentication error: ", vout.msg>>, 401),
                 FALSE, "", <<parts[2]>>, 0, NoException)

\* JWTAuthMiddleware._validate_token
ValidateToken(validator, auth_header, vout) ==
    LET tok == ExtractToken(auth_header)
    IN  IF tok.isNone \/ tok.token = <<>>
        THEN GateResult(FALSE,
                 JSONResponse("error", <<"Invalid Authorization header format">>, 401),
                 FALSE, "", <<>>, 0, NoException)
        ELSE IF validator = "None"
        THEN \* None.validate_token: AttributeError, caught by "except Exception"
             GateResult(FALSE,
                 JSONResponse("error", <<"Authentication error: ",
                     "'NoneType' object has no attribute 'validate_token'">>, 401),
                 FALSE, "", <<>>, 0, NoException)
        ELSE IF vout.kind = "ok"
        THEN GateResult(TRUE, NoResponse, TRUE, vout.id, <<tok.token>>, 0, NoException)
        ELSE IF vout.kind = "ValueError"
        THEN GateResult(FALSE,
                 JSONResponse("error", <<"JWT validation failed: ", vout.msg>>, 401),
                 FALSE, "", <<tok.token>>, 0, NoException)
        ELSE GateResult(FALSE,
                 JSONResponse("error", <<"Authentication error: ", vout.msg>>, 401),
                 FALSE, "", <<tok.token>>, 0, NoException)

\* "not auth_config or not hasattr(auth_config, 'CLIENT_ID') or not auth_config.CLIENT_ID"
NoClientId(cfg) == ~cfg.present \/ ~cfg.hasClientId \/ cfg.CLIENT_ID = <<>>

\* variant of _handle_missing_header that never looks at CLIENT_ID
HandleMissingHeader_AlwaysAnonymous(cfg, validator, aout) ==
    IF validator = "None"
    THEN GateResult(FALSE, NoResponse, FALSE, "", <<>>, 0,
             [type |-> "AttributeError",
              msg |-> "'NoneType' object has no attribute 'get_anonymous_claims'"])
    ELSE IF aout.kind = "ok"
    THEN GateResult(TRUE, NoResponse, TRUE, aout.id, <<>>, 1, NoException)
    ELSE GateResult(FALSE, NoResponse, FALSE, "", <<>>, 1,
             [type |-> aout.kind, msg |-> aout.msg])

\* variant of _handle_missing_header that answers 403 when the header is required
HandleMissingHeader_Status403(cfg, validator, aout) ==
    IF NoClientId(cfg)
    THEN IF validator = "None"
         THEN GateResult(FALSE, NoResponse, FALSE, "", <<>>, 0,
                  [type |-> "AttributeError",
                   msg |-> "'NoneType' object has no attribute 'get_anonymous_claims'"])
         ELSE IF aout.kind = "ok"
         THEN GateResult(TRUE, NoResponse, TRUE, aout.id, <<>>, 1, NoException)
         ELSE GateResult(FALSE, NoResponse, FALSE, "", <<>>, 1,
                  [type |-> aout.kind, msg |-> aout.msg])
    ELSE GateResult(FALSE,
             JSONResponse("error", <<"Authorization header not found">>, 403),
             FALSE, "", <<>>, 0, NoException)

\* JWTAuthMiddleware._handle_missing_header (no try/except around the validator call)
HandleMissingHeader(cfg, validator, aout) ==
    IF NoClientId(cfg)
    THEN IF validator = "None"
         THEN GateResult(FALSE, NoResponse, FALSE, "", <<>>, 0,
                  [type |-> "AttributeError",
                   msg |-> "'NoneType' object has no attribute 'get_anonymous_claims'"])
         ELSE IF aout.kind = "ok"
         THEN GateResult(TRUE, NoResponse, TRUE, aout.id, <<>>, 1, NoException)
         ELSE GateResult(FALSE, NoResponse, FALSE, "", <<>>, 1,
                  [type |-> aout.kind, msg |-> aout.msg])
    ELSE GateResult(FALSE,
             JSONResponse("error", <<"Authorization header not found">>, 401),
             FALSE, "", <<>>, 0, NoException)

\* "if auth_header:" is false for a missing header and for the empty string
HeaderTruthy(req) == req.hasAuth /\ req.auth # <<>>

\* variant of authenticate_request that compares the path up to a trailing slash
AuthenticateRequest_TrailingSlash(cfg, validator, req, vout, aout) ==
    IF req.path \notin {"/api/messages", "/api/messages/"}
    THEN GateResult(TRUE, NoResponse, FALSE, "", <<>>, 0, NoException)
    ELSE IF HeaderTruthy(req)
    THEN ValidateToken(validator, req.auth, vout)
    ELSE HandleMissingHeader(cfg, validator, aout)

\* variant of authenticate_request that stores a placeholder identity before deciding
AuthenticateRequest_StoresFirst(cfg, validator, req, vout, aout) ==
    IF req.path # "/api/messages"
    THEN GateResult(TRUE, NoResponse, FALSE, "", <<>>, 0, NoException)
    ELSE LET r == IF HeaderTruthy(req) THEN ValidateToken(validator, req.auth, vout)
                  ELSE HandleMissingHeader(cfg, validator, aout)
         IN  IF r.setsId THEN r ELSE [r EXCEPT !.setsId = TRUE, !.id = AnonymousIdentity]

\* variant of authenticate_request without the path test
AuthenticateRequest_EveryPath(cfg, validator, req, vout, aout) ==
    IF HeaderTruthy(req)
    THEN ValidateToken(validator, req.auth, vout)
    ELSE HandleMissingHeader(cfg, validator, aout)

\* JWTAuthMiddleware.authenticate_request
AuthenticateRequest(cfg, validator, req, vout, aout) ==
    IF req.path # "/api/messages"
    THEN GateResult(TRUE, NoResponse, FALSE, "", <<>>, 0, NoException)
    ELSE IF HeaderTruthy(req)
    THEN ValidateToken(validator, req.auth, vout)
    ELSE HandleMissingHeader(cfg, validator, aout)

-----------------------------------------------------------------------------
(* auth_middleware.py: what the gate logs *)

\* the characters of a header symbol
SymChars(sym) ==
    IF sym = "Bearer" THEN <<"B", "e", "a", "r", "e", "r">>
    ELSE IF sym = "bearer" THEN <<"b", "e", "a", "r", "e", "r">>
    ELSE <<sym>>

RECURSIVE Chars(_)
Chars(s) == IF s = <<>> THEN <<>> ELSE SymChars(Head(s)) \o Chars(Tail(s))

\* the length of the previews: auth_header[:20], token[:20], token[-20:]
PreviewLen == 20

\* s[:n]
Prefix(s, n) == SubSeq(s, 1, IF Len(s) < n THEN Len(s) ELSE n)

\* s[-n:]
Suffix(s, n) == SubSeq(s, IF Len(s) < n THEN 1 ELSE Len(s) - n + 1, Len(s))

\* one record of the module's logger: level, format text, the interpolated string
\* (characters), an interpolated exception message and interpolated claims
LogRecord(level, text, arg, detail, claims) ==
    [level |-> level, text |-> text, arg |-> arg, detail |-> detail, claims |-> claims,
     n |-> 0]

Rule80 == LogRecord("WARNING", "=" , <<>>, "", "")

\* _validate_token's records after the header's preview, for an extracted token
TokenLog(flag, validator, token, vout) ==
    (IF flag
     THEN << Rule80,
             LogRecord("WARNING", "FULL JWT TOKEN (SENSITIVE - FOR TESTING ONLY):", <<>>, "", ""),
             LogRecord("WARNING", "Token: ", Chars(token), "", ""),
             [LogRecord("WARNING", "Length: ", <<>>, "", "") EXCEPT !.n = Len(Chars(token))],
             Rule80 >>
     ELSE << LogRecord("DEBUG", "Validating JWT token: ",
                 Prefix(Chars(token), PreviewLen) \o <<".", ".", ".">>
                     \o Suffix(Chars(token), PreviewLen), "", "") >>)
    \o
    (IF validator = "None"
     THEN << LogRecord("ERROR", "Unexpected error during JWT validation: ", <<>>,
                 "'NoneType' object has no attribute 'validate_token'", "") >>
     ELSE IF vout.kind = "ok"
     THEN << LogRecord("DEBUG", "JWT token validated successfully. Claims: ", <<>>, "", vout.id) >>
          \o (IF flag
              THEN << LogRecord("WARNING", "DECODED TOKEN CLAIMS (SENSITIVE - FOR TESTING ONLY):", <<>>, "", ""),
                      LogRecord("WARNING", "Issuer (iss): ", <<>>, "", vout.id),
                      LogRecord("WARNING", "Audience (aud): ", <<>>, "", vout.id),
                      LogRecord("WARNING", "Subject (sub): ", <<>>, "", vout.id),
                      LogRecord("WARNING", "Expiration (exp): ", <<>>, "", vout.id),
                      LogRecord("WARNING", "Service URL: ", <<>>, "", vout.id),
                      LogRecord("WARNING", "All claims: ", <<>>, "", vout.id),
                      Rule80 >>
              ELSE <<>>)
     ELSE IF vout.kind = "ValueError"
     THEN << LogRecord("ERROR", "JWT validation error: ", <<>>, vout.msg, "") >>
     ELSE << LogRecord("ERROR", "Unexpected error during JWT validation: ", <<>>, vout.msg, "") >>)

\* the records of _validate_token and _extract_token
ValidateTokenLog(flag, validator, auth_header, vout) ==
    LET tok == ExtractToken(auth_header)
    IN  << LogRecord("DEBUG", "Authorization header found: ",
               Prefix(Chars(auth_header), PreviewLen) \o <<".", ".", ".">>, "", "") >>
        \o (IF tok.isNone
            THEN << LogRecord("ERROR", "Invalid Authorization header format: ",
                        Chars(auth_header), "", "") >>
            ELSE IF tok.token = <<>> THEN <<>>
            ELSE TokenLog(flag, validator, tok.token, vout))

\* the records of _handle_missing_header
MissingHeaderLog(cfg) ==
    << LogRecord("DEBUG", "No Authorization header found", <<>>, "", "") >>
    \o (IF NoClientId(cfg)
        THEN << LogRecord("DEBUG", "No CLIENT_ID configured - using anonymous claims", <<>>, "", "") >>
        ELSE << LogRecord("ERROR", "Authorization header required but not found", <<>>, "", "") >>)

\* the records of authenticate_request
GateLog(flag, cfg, validator, req, vout, aout) ==
    IF req.path # "/api/messages" THEN <<>>
    ELSE << LogRecord("DEBUG", "Processing /api/messages request - validating JWT token",
                <<>>, "", "") >>
         \o (IF HeaderTruthy(req)
             THEN ValidateTokenLog(flag, validator, req.auth, vout)
             ELSE MissingHeaderLog(cfg))

-----------------------------------------------------------------------------
(* request_adapter.py and message_handler.py *)

\* variant of _transfer_claims_identity that fills in an anonymous identity
TransferClaimsIdentity_DefaultsAnonymous(state) ==
    IF state.set THEN [hasIdentity |-> TRUE, identity |-> state.id]
    ELSE [hasIdentity |-> TRUE, identity |-> AnonymousIdentity]

\* variant of _transfer_claims_identity that copies nothing
TransferClaimsIdentity_Dropped(state) == [hasIdentity |-> FALSE, identity |-> ""]

\* FastAPIToAioHttpRequestAdapter._transfer_claims_identity
TransferClaimsIdentity(state) ==
    IF state.set THEN [hasIdentity |-> TRUE, identity |-> state.id]
    ELSE [hasIdentity |-> FALSE, identity |-> ""]

\* what _transfer_claims_identity logs
TransferClaimsIdentityLog(state) ==
    IF state.set
    THEN << LogRecord("DEBUG", "Transferred claims_identity to adapter: ", <<>>, "", state.id) >>
    ELSE << LogRecord("WARNING", "No claims_identity found in request state", <<>>, "", "") >>

\* MessageHandler._create_adapter: __init__ and configure_app_state
CreateAdapter(state, b) ==
    LET data == TransferClaimsIdentity(state)
    IN  [created |-> TRUE, body |-> b, hasIdentity |-> data.hasIdentity,
         identity |-> data.identity, configured |-> TRUE]

\* FastAPIToAioHttpRequestAdapter.get(key, default=None)
AdapterGet(a, key) ==
    IF key = "claims_identity" /\ a.hasIdentity THEN a.identity ELSE "None"

\* bytes.decode('utf-8'): fails on a byte that is not UTF-8
Utf8Ok(b) == \A i \in 1..Len(b) : b[i] # "\\xff"

RECURSIVE DigitsValue(_)
DigitsValue(b) == IF b = <<>> THEN 0 ELSE 10 * DigitsValue(SubSeq(b, 1, Len(b) - 1)) + 1

\* json.loads on the decoded text: the documents of this alphabet are {} and 1, 11, ...
JsonLoads(b) ==
    IF ~Utf8Ok(b) THEN [ok |-> FALSE, value |-> <<"UnicodeDecodeError">>]
    ELSE IF b = <<"{", "}">> THEN [ok |-> TRUE, value |-> <<"dict">>]
    ELSE IF b # <<>> /\ \A i \in 1..Len(b) : b[i] = "1"
    THEN [ok |-> TRUE, value |-> <<"int", DigitsValue(b)>>]
    ELSE [ok |-> FALSE, value |-> <<"JSONDecodeError">>]

\* results start_agent_process can return: an object without a body attribute,
\* or with a body and a status
ResultBodies == {<<>>, <<"1">>, <<"{", "}">>, <<"{">>, <<"\\xff">>}

ProcessorResults ==
    {[hasBody |-> FALSE, body |-> <<>>, status |-> st] : st \in {200, 400}}
    \cup {[hasBody |-> TRUE, body |-> b, status |-> st] : b \in ResultBodies, st \in {200, 202, 400}}

\* HTTPException(status_code, detail) as rendered by the framework
HTTPException(status_code, detail) ==
    [status |-> status_code, key |-> "detail", text |-> detail]

\* handle_message's "except Exception": HTTPException(500, "Internal server error: " + str(e))
HandlerException(m) == HTTPException(500, <<"Internal server error: ", m>>)

\* MessageHandler._convert_response, with handle_message's "except Exception" around it
ConvertResponse(res) ==
    IF res.hasBody /\ res.body # <<>>
    THEN LET parsed == JsonLoads(res.body)
         IN  IF parsed.ok THEN JSONResponse("json", parsed.value, res.status)
             ELSE HandlerException(parsed.value[1])
    ELSE JSONResponse("status", <<"ok">>, 200)

-----------------------------------------------------------------------------
(* The application built by create_app *)

\* variant of the middleware wrapper that calls call_next whatever the gate returned
MiddlewareNext_AlwaysCallNext(r) == IF r.raised # NoException THEN "done" ELSE "routing"

\* app_factory.jwt_auth_middleware: "if not success: return error_response",
\* otherwise call_next; an exception of authenticate_request leaves the middleware
MiddlewareNext(r) ==
    IF r.raised # NoException THEN "done"
    ELSE IF ~r.success THEN "done"
    ELSE "routing"

\* variant of _get_request_body without the emptiness check
GetRequestBodyCheck_NoCheck(b) == [raises |-> FALSE, exc |-> NoResponse]

\* variant of _get_request_body with the test inverted ("if body:")
GetRequestBodyCheck_Inverted(b) ==
    IF b # <<>>
    THEN [raises |-> TRUE, exc |-> HTTPException(400, <<"Request body is empty">>)]
    ELSE [raises |-> FALSE, exc |-> NoResponse]

\* MessageHandler._get_request_body: an empty body raises HTTPException(400)
GetRequestBodyCheck(b) ==
    IF b = <<>>
    THEN [raises |-> TRUE, exc |-> HTTPException(400, <<"Request body is empty">>)]
    ELSE [raises |-> FALSE, exc |-> NoResponse]

\* the application after create_app, whatever LOG_JWT_TOKENS was read as
InitApp ==
    /\ auth_config \in AuthConfigs
    /\ token_validator = MakeValidator(auth_config)
    /\ pc = "idle"
    /\ request = NoRequest
    /\ claims_identity = NoIdentity
    /\ gate = "none"
    /\ error_response = NoResponse
    /\ validatorSaid = NotCalled
    /\ response = NoResponse
    /\ escaped = NoException
    /\ validateCalls = <<>>
    /\ anonCalls = 0
    /\ idWrites = 0
    /\ handlerRuns = 0
    /\ bodyReads = 0
    /\ body = <<>>
    /\ adapter = NoAdapter
    /\ processorCalls = 0
    /\ procSeen = "unseen"
    /\ procOutcome = NoOutcome
    /\ log = <<>>
    /\ probe = NoProbe
    /\ variant = NoVariant
    /\ conc = NoConc

\* LOG_JWT_TOKENS unset in the environment: "false"
Init ==
    /\ LOG_JWT_TOKENS = FALSE
    /\ InitApp

\* LOG_JWT_TOKENS set either way in the environment
InitLog ==
    /\ LOG_JWT_TOKENS \in BOOLEAN
    /\ InitApp

\* a new request arrives with fresh request.state
Receive ==
    /\ pc = "idle"
    /\ \E p \in Paths, m \in Methods, ha \in BOOLEAN, h \in HeaderValues :
          /\ (~ha => h = <<>>)
          /\ request' = [path |-> p, method |-> m, hasAuth |-> ha, auth |-> h]
    /\ pc' = "received"
    /\ UNCHANGED <<log, procOutcome, LOG_JWT_TOKENS, variant, conc, probe, auth_config, token_validator, claims_identity, gate, error_response,
                   validatorSaid, response, escaped, validateCalls, anonCalls, idWrites,
                   handlerRuns, bodyReads, body, adapter, processorCalls, procSeen>>

\* the response has been sent: the request, its state and its adapter are discarded
Complete ==
    /\ pc = "done"
    /\ pc' = "idle"
    /\ request' = NoRequest
    /\ claims_identity' = NoIdentity
    /\ gate' = "none"
    /\ error_response' = NoResponse
    /\ validatorSaid' = NotCalled
    /\ response' = NoResponse
    /\ escaped' = NoException
    /\ validateCalls' = <<>>
    /\ anonCalls' = 0
    /\ idWrites' = 0
    /\ handlerRuns' = 0
    /\ bodyReads' = 0
    /\ body' = <<>>
    /\ adapter' = NoAdapter
    /\ processorCalls' = 0
    /\ procSeen' = "unseen"
    /\ procOutcome' = NoOutcome
    /\ log' = <<>>
    /\ UNCHANGED <<LOG_JWT_TOKENS, variant, conc, probe, auth_config, token_validator>>

\* app_factory._add_middleware.jwt_auth_middleware, up to call_next
JwtAuthMiddleware ==
    /\ pc = "received"
    /\ \E vout \in ValidateOutcomes, aout \in AnonOutcomes :
          LET r == AuthenticateRequest(auth_config, token_validator, request, vout, aout)
          IN  /\ claims_identity' = IF r.setsId THEN [set |-> TRUE, id |-> r.id]
                                    ELSE claims_identity
              /\ idWrites' = IF r.setsId THEN idWrites + 1 ELSE idWrites
              /\ validateCalls' = validateCalls \o r.vcalls
              /\ anonCalls' = anonCalls + r.acalls
              /\ validatorSaid' = IF r.vcalls # <<>> THEN vout
                                  ELSE IF r.acalls > 0 THEN aout
                                  ELSE NotCalled
              /\ gate' = IF r.raised # NoException THEN "raised"
                         ELSE IF r.success THEN "success"
                         ELSE "rejected"
              /\ escaped' = r.raised
              /\ error_response' = r.response
              /\ pc' = MiddlewareNext(r)
              /\ response' = IF pc' = "done" THEN r.response ELSE response
              /\ log' = log \o GateLog(LOG_JWT_TOKENS, auth_config, token_validator,
                                        request, vout, aout)
    /\ UNCHANGED <<procOutcome, LOG_JWT_TOKENS, variant, conc, probe, auth_config, token_validator, request, handlerRuns, bodyReads, body,
                   adapter, processorCalls, procSeen>>

\* api_routes: POST /api/messages -> handle_messages -> MessageHandler.handle_message,
\* which suspends at "await request.body()"
RouteMessages ==
    /\ pc = "routing"
    /\ request.path = "/api/messages" /\ request.method = "POST"
    /\ handlerRuns' = handlerRuns + 1
    /\ pc' = "reading"
    /\ UNCHANGED <<log, procOutcome, LOG_JWT_TOKENS, variant, conc, probe, auth_config, token_validator, request, claims_identity, gate,
                   error_response, validatorSaid, response, escaped, validateCalls,
                   anonCalls, idWrites, bodyReads, body, adapter, processorCalls, procSeen>>

\* api_routes: GET /
RouteRoot ==
    /\ pc = "routing"
    /\ request.path = "/" /\ request.method = "GET"
    /\ handlerRuns' = handlerRuns + 1
    /\ response' = JSONResponse("message",
                       <<"Auto Sign-In Agent FastAPI Server is running (Simple wrapper)">>, 200)
    /\ pc' = "done"
    /\ UNCHANGED <<log, procOutcome, LOG_JWT_TOKENS, variant, conc, probe, auth_config, token_validator, request, claims_identity, gate,
                   error_response, validatorSaid, escaped, validateCalls, anonCalls,
                   idWrites, bodyReads, body, adapter, processorCalls, procSeen>>

\* api_routes.health_check: {"status": "healthy", "service": ..., "version": "1.0.0"}
HealthPayload ==
    <<"healthy", "service", "auto-signin-agent-fastapi-simple", "version", "1.0.0">>

\* api_routes: GET /health
RouteHealth ==
    /\ pc = "routing"
    /\ request.path = "/health" /\ request.method = "GET"
    /\ handlerRuns' = handlerRuns + 1
    /\ response' = JSONResponse("status", HealthPayload, 200)
    /\ pc' = "done"
    /\ UNCHANGED <<log, procOutcome, LOG_JWT_TOKENS, variant, conc, probe, auth_config, token_validator, request, claims_identity, gate,
                   error_response, validatorSaid, escaped, validateCalls, anonCalls,
                   idWrites, bodyReads, body, adapter, processorCalls, procSeen>>

\* the routes api_routes.create_routes registers
Routed(req) ==
    \/ req.path = "/api/messages" /\ req.method = "POST"
    \/ req.path = "/" /\ req.method = "GET"
    \/ req.path = "/health" /\ req.method = "GET"

\* no route of api_routes matches: the framework answers (a redirect to the path
\* without its trailing slash, or method not allowed); no handler of the application runs
RouteUnmatched ==
    /\ pc = "routing"
    /\ ~Routed(request)
    /\ response' = IF request.path = "/api/messages/"
                   THEN JSONResponse("redirect", <<"/api/messages">>, 307)
                   ELSE JSONResponse("detail", <<"Method Not Allowed">>, 405)
    /\ pc' = "done"
    /\ UNCHANGED <<log, procOutcome, LOG_JWT_TOKENS, variant, conc, probe, auth_config, token_validator, request, claims_identity, gate,
                   error_response, validatorSaid, escaped, validateCalls, anonCalls,
                   idWrites, handlerRuns, bodyReads, body, adapter, processorCalls, procSeen>>

\* MessageHandler.handle_message from the body's arrival to "await start_agent_process":
\* _get_request_body, _create_adapter and the call of the processor
GetRequestBody ==
    /\ pc = "reading"
    /\ bodyReads' = bodyReads + 1
    /\ \E b \in Bodies :
          /\ body' = b
          /\ IF GetRequestBodyCheck(b).raises
             THEN /\ response' = GetRequestBodyCheck(b).exc
                  /\ pc' = "done"
                  /\ UNCHANGED <<adapter, processorCalls, procSeen>>
             ELSE /\ adapter' = CreateAdapter(claims_identity, b)
                  /\ processorCalls' = processorCalls + 1
                  /\ procSeen' = AdapterGet(adapter', "claims_identity")
                  /\ response' = response
                  /\ pc' = "processing"
    /\ UNCHANGED <<log, procOutcome, LOG_JWT_TOKENS, variant, conc, probe, auth_config, token_validator, request, claims_identity, gate,
                   error_response, validatorSaid, escaped, validateCalls, anonCalls,
                   idWrites, handlerRuns>>

\* start_agent_process returns: _convert_response
ProcessorReturns ==
    /\ pc = "processing"
    /\ \E res \in ProcessorResults :
          /\ response' = ConvertResponse(res)
          /\ procOutcome' = [kind |-> "returned", hasBody |-> res.hasBody, body |-> res.body,
                             status |-> res.status, msg |-> ""]
    /\ pc' = "done"
    /\ UNCHANGED <<log, LOG_JWT_TOKENS, variant, conc, probe, auth_config, token_validator, request, claims_identity, gate,
                   error_response, validatorSaid, escaped, validateCalls, anonCalls,
                   idWrites, handlerRuns, bodyReads, body, adapter, processorCalls, procSeen>>

\* start_agent_process raises: handle_message's "except Exception"
ProcessorRaises ==
    /\ pc = "processing"
    /\ \E m \in Messages :
          /\ response' = HandlerException(m)
          /\ procOutcome' = [kind |-> "raised", hasBody |-> FALSE, body |-> <<>>,
                             status |-> 0, msg |-> m]
    /\ pc' = "done"
    /\ UNCHANGED <<log, LOG_JWT_TOKENS, variant, conc, probe, auth_config, token_validator, request, claims_identity, gate,
                   error_response, validatorSaid, escaped, validateCalls, anonCalls,
                   idWrites, handlerRuns, bodyReads, body, adapter, processorCalls, procSeen>>

Next ==
    \/ Receive
    \/ JwtAuthMiddleware
    \/ RouteMessages
    \/ RouteRoot
    \/ RouteHealth
    \/ RouteUnmatched
    \/ GetRequestBody
    \/ ProcessorReturns
    \/ ProcessorRaises
    \/ Complete

Spec == Init /\ [][Next]_vars

LogSpec == InitLog /\ [][Next]_vars

-----------------------------------------------------------------------------
(* The request adapter on its own: FastAPIToAioHttpRequestAdapter built from a
   request's headers and a body buffer, then read through its interface *)

MaxWireHeaders == 1

MaxProbeBodyLen == 2

\* a header name is written letter by letter: "c" is C, "o" is ONTENT-, "t" is T
\* and "y" is YPE of Content-Type, each in lower or in upper case
UpperOf == [c |-> "C", o |-> "O", t |-> "T", y |-> "Y", x |-> "X"]

LowerLetters == {"c", "o", "t", "y", "x"}

\* str.lower() on one letter
LowerCh(ch) == IF ch \in LowerLetters THEN ch ELSE CHOOSE l \in LowerLetters : UpperOf[l] = ch

\* str.lower()
Lower(name) == [i \in 1..Len(name) |-> LowerCh(name[i])]

\* the literal 'content-type'
content_type == <<"c", "o", "t", "y">>

\* the literal 'Content-Type'
Content_Type == <<"C", "o", "T", "y">>

x_header == <<"x">>

\* every way of writing a lower-case name
Casings(name) ==
    {[i \in 1..Len(name) |-> IF i \in U THEN UpperOf[name[i]] ELSE name[i]] :
        U \in SUBSET (1..Len(name))}

\* names a client writes on the wire
WireNames ==
    {content_type, Content_Type, <<"C", "O", "T", "Y">>, <<"C", "o", "t", "y">>,
     <<"c", "O", "t", "Y">>, <<"x">>, <<"X">>}

\* names the agent code looks up
LookupKeys == WireNames

WireValues == {"text/plain", "v"}

WireHeaders == SeqsUpTo([k : WireNames, v : WireValues], MaxWireHeaders)

ProbeBodies == SeqsUpTo(ByteSymbols, MaxProbeBodyLen)

\* dict: pairs in insertion order, one per key
DictHas(d, key) == \E i \in 1..Len(d) : d[i].k = key

DictGet(d, key) == d[CHOOSE i \in 1..Len(d) : d[i].k = key].v

DictSet(d, key, val) ==
    IF DictHas(d, key)
    THEN [i \in 1..Len(d) |-> IF d[i].k = key THEN [k |-> key, v |-> val] ELSE d[i]]
    ELSE Append(d, [k |-> key, v |-> val])

\* variant of dict(request.headers) that keeps the names as the client wrote them
RECURSIVE HeadersDict_AsWritten(_)
HeadersDict_AsWritten(wire) ==
    IF wire = <<>> THEN <<>>
    ELSE LET rest == HeadersDict_AsWritten(SubSeq(wire, 1, Len(wire) - 1))
             last == wire[Len(wire)]
         IN  IF DictHas(rest, last.k) THEN rest
             ELSE Append(rest, [k |-> last.k, v |-> last.v])

\* dict(request.headers): the server hands header names over in lower case, and
\* a lookup in request.headers gives the first header of that name
RECURSIVE HeadersDict(_)
HeadersDict(wire) ==
    IF wire = <<>> THEN <<>>
    ELSE LET rest == HeadersDict(SubSeq(wire, 1, Len(wire) - 1))
             last == wire[Len(wire)]
         IN  IF DictHas(rest, Lower(last.k)) THEN rest
             ELSE Append(rest, [k |-> Lower(last.k), v |-> last.v])

\* CaseInsensitiveDict.__init__: {k.lower(): v for k, v in data.items()}
RECURSIVE LowerKeys(_)
LowerKeys(d) ==
    IF d = <<>> THEN <<>>
    ELSE LET last == d[Len(d)]
         IN  DictSet(LowerKeys(SubSeq(d, 1, Len(d) - 1)), Lower(last.k), last.v)

\* CaseInsensitiveDict.__init__: {k.lower(): k for k in data.keys()}
RECURSIVE OriginalKeys(_)
OriginalKeys(d) ==
    IF d = <<>> THEN <<>>
    ELSE LET last == d[Len(d)]
         IN  DictSet(OriginalKeys(SubSeq(d, 1, Len(d) - 1)), Lower(last.k), last.k)

CaseInsensitiveDict(d) == [data |-> LowerKeys(d), original_keys |-> OriginalKeys(d)]

\* variant of the headers property without the default Content-Type
AdapterHeaders_NoDefault(wire) == CaseInsensitiveDict(HeadersDict(wire))

\* FastAPIToAioHttpRequestAdapter.headers
AdapterHeaders(wire) ==
    LET headers_dict == HeadersDict(wire)
        with_default ==
            IF ~DictHas(headers_dict, content_type) /\ ~DictHas(headers_dict, Content_Type)
            THEN DictSet(headers_dict, Content_Type, "application/json")
            ELSE headers_dict
    IN  CaseInsensitiveDict(with_default)

\* what a call on the adapter gave back
Returned(kind, str, seq, flag) == [kind |-> kind, str |-> str, seq |-> seq, flag |-> flag]

NoResult == Returned("none", "", <<>>, FALSE)

\* variant of the lookup key that is not lower-cased
LookupKey_AsWritten(key) == key

\* key.lower() in __getitem__, __contains__ and get
LookupKey(key) == Lower(key)

\* CaseInsensitiveDict.__getitem__
CIGetItem(h, key) ==
    IF DictHas(h.data, LookupKey(key))
    THEN Returned("value", DictGet(h.data, LookupKey(key)), <<>>, FALSE)
    ELSE Returned("raise", "KeyError", <<>>, FALSE)

\* CaseInsensitiveDict.__contains__
CIContains(h, key) == Returned("bool", "", <<>>, DictHas(h.data, LookupKey(key)))

\* CaseInsensitiveDict.get(key, default=None)
CIGet(h, key) ==
    IF DictHas(h.data, LookupKey(key))
    THEN Returned("value", DictGet(h.data, LookupKey(key)), <<>>, FALSE)
    ELSE Returned("value", "None", <<>>, FALSE)

\* the characters the bytes of this alphabet decode to
CodePoint == [b \in ByteSymbols \ {"\\xff"} |->
                 IF b = "{" THEN "U+007B" ELSE IF b = "}" THEN "U+007D" ELSE "U+0031"]

\* bytes.decode('utf-8') of a buffer that decodes
Utf8Decode(b) == [i \in 1..Len(b) |-> CodePoint[b[i]]]

\* json.loads on text
JsonLoadsText(t) ==
    IF t = <<"U+007B", "U+007D">> THEN [ok |-> TRUE, value |-> <<"dict">>]
    ELSE IF t # <<>> /\ \A i \in 1..Len(t) : t[i] = "U+0031"
    THEN [ok |-> TRUE, value |-> <<"int", DigitsValue(t)>>]
    ELSE [ok |-> FALSE, value |-> <<"JSONDecodeError">>]

\* FastAPIToAioHttpRequestAdapter.read: "return self._body"
AdapterRead(b) == [result |-> Returned("bytes", "", b, FALSE), body |-> b, streamReads |-> 0]

\* FastAPIToAioHttpRequestAdapter.text: "return self._body.decode('utf-8')"
AdapterText(b) ==
    [result |-> IF Utf8Ok(b) THEN Returned("text", "", Utf8Decode(b), FALSE)
                ELSE Returned("raise", "UnicodeDecodeError", <<>>, FALSE),
     body |-> b, streamReads |-> 0]

\* variant of json that drains the buffer as a stream would
AdapterJson_Drains(b) ==
    [result |-> IF ~Utf8Ok(b) THEN Returned("raise", "UnicodeDecodeError", <<>>, FALSE)
                ELSE IF JsonLoadsText(Utf8Decode(b)).ok
                THEN Returned("json", "", JsonLoadsText(Utf8Decode(b)).value, FALSE)
                ELSE Returned("raise", "JSONDecodeError", <<>>, FALSE),
     body |-> <<>>, streamReads |-> 1]

\* variant of json that answers an empty object when the body does not parse
AdapterJson_Swallows(b) ==
    [result |-> IF Utf8Ok(b) /\ JsonLoadsText(Utf8Decode(b)).ok
                THEN Returned("json", "", JsonLoadsText(Utf8Decode(b)).value, FALSE)
                ELSE Returned("json", "", <<"dict">>, FALSE),
     body |-> b, streamReads |-> 0]

\* FastAPIToAioHttpRequestAdapter.json: decode, json.loads, and "except Exception
\* as e: logger.error(...); raise"
AdapterJson(b) ==
    [result |-> IF ~Utf8Ok(b) THEN Returned("raise", "UnicodeDecodeError", <<>>, FALSE)
                ELSE IF JsonLoadsText(Utf8Decode(b)).ok
                THEN Returned("json", "", JsonLoadsText(Utf8Decode(b)).value, FALSE)
                ELSE Returned("raise", "JSONDecodeError", <<>>, FALSE),
     body |-> b, streamReads |-> 0]

\* the requests and buffers adapters are built from
ProbeInputs ==
    {[wire |-> w, b |-> <<"{", "}">>, state |-> [set |-> TRUE, id |-> "alice"]] : w \in WireHeaders}
    \cup {[wire |-> <<>>, b |-> b, state |-> [set |-> TRUE, id |-> "alice"]] : b \in ProbeBodies}
    \cup {[wire |-> <<>>, b |-> <<"{", "}">>, state |-> st] :
              st \in {NoIdentity, [set |-> TRUE, id |-> AnonymousIdentity]}}

\* FastAPIToAioHttpRequestAdapter.__init__(fastapi_request, body)
AdapterInit ==
    /\ ~probe.built
    /\ \E in \in ProbeInputs :
          probe' = [built |-> TRUE, wire |-> in.wire, given |-> in.b, body |-> in.b,
                    op |-> "__init__", key |-> <<>>, result |-> NoResult, prior |-> "none",
                    streamReads |-> 0, state |-> in.state,
                    adapter |-> CreateAdapter(in.state, in.b),
                    log |-> TransferClaimsIdentityLog(in.state)]
    /\ UNCHANGED <<LOG_JWT_TOKENS, variant, conc, auth_config, token_validator, pc, request, claims_identity,
                   gate, error_response, validatorSaid, response, escaped, validateCalls,
                   anonCalls, idWrites, handlerRuns, bodyReads, body, adapter,
                   processorCalls, procSeen, procOutcome, log>>

\* a call on adapter.headers
HeaderCall(op, key, res) ==
    /\ probe.built
    /\ probe' = [probe EXCEPT !.op = op, !.key = key, !.result = res]
    /\ UNCHANGED <<LOG_JWT_TOKENS, variant, conc, auth_config, token_validator, pc, request, claims_identity,
                   gate, error_response, validatorSaid, response, escaped, validateCalls,
                   anonCalls, idWrites, handlerRuns, bodyReads, body, adapter,
                   processorCalls, procSeen, procOutcome, log>>

\* adapter.headers.get(key)
HeadersGet == \E key \in LookupKeys : HeaderCall("get", key, CIGet(AdapterHeaders(probe.wire), key))

\* adapter.headers[key]
HeadersGetItem ==
    \E key \in LookupKeys : HeaderCall("getitem", key, CIGetItem(AdapterHeaders(probe.wire), key))

\* key in adapter.headers
HeadersContains ==
    \E key \in LookupKeys : HeaderCall("contains", key, CIContains(AdapterHeaders(probe.wire), key))

\* adapter.get('claims_identity')
DataGet == HeaderCall("data.get", <<>>,
               Returned("value", AdapterGet(probe.adapter, "claims_identity"), <<>>, FALSE))

\* handle_message hands the adapter it built to start_agent_process, which reads
\* the identity with get('claims_identity')
StartAgentProcess ==
    HeaderCall("start_agent_process", <<>>,
        Returned("value", AdapterGet(probe.adapter, "claims_identity"), <<>>, TRUE))

\* a call of read, text or json on the adapter
BodyCall(op, r) ==
    /\ probe.built
    /\ probe' = [probe EXCEPT !.op = op, !.key = <<>>, !.result = r.result, !.body = r.body,
                              !.prior = IF probe.op \in {"read", "text", "json"} THEN probe.op ELSE @,
                              !.streamReads = IF @ + r.streamReads > 1 THEN 1 ELSE @ + r.streamReads]
    /\ UNCHANGED <<LOG_JWT_TOKENS, variant, conc, auth_config, token_validator, pc, request, claims_identity,
                   gate, error_response, validatorSaid, response, escaped, validateCalls,
                   anonCalls, idWrites, handlerRuns, bodyReads, body, adapter,
                   processorCalls, procSeen, procOutcome, log>>

\* await adapter.read()
ReadCall == BodyCall("read", AdapterRead(probe.body))

\* await adapter.text()
TextCall == BodyCall("text", AdapterText(probe.body))

\* await adapter.json()
JsonCall == BodyCall("json", AdapterJson(probe.body))

AdapterNext ==
    \/ AdapterInit
    \/ HeadersGet
    \/ HeadersGetItem
    \/ HeadersContains
    \/ DataGet
    \/ StartAgentProcess
    \/ ReadCall
    \/ TextCall
    \/ JsonCall

\* one application, no request in flight: the adapter reads nothing of the application
AdapterSpecInit ==
    /\ Init
    /\ ~auth_config.present

\* adapters built and called
AdapterSpec == AdapterSpecInit /\ [][AdapterNext]_vars

-----------------------------------------------------------------------------
(* The server variants of the repository: app_factory (create_app),
   fastapi_simple, fastapi_agent and start_server, each handling one request *)

MaxVariantHdrLen == 3

VariantHeaders == SeqsUpTo(HdrSymbols, MaxVariantHdrLen)

VariantBodies == {<<>>, <<"{", "}">>, <<"1">>, <<"{">>, <<"\\xff">>}

Servers == {"app_factory", "fastapi_simple", "fastapi_agent", "start_server"}

VariantPaths == {"/api/messages", "/health"}

\* fastapi_simple.jwt_auth_middleware up to call_next: the validator is built
\* from app.state.agent_configuration for the request, the token is parts[1]
\* whatever it is, and "not auth_config or not auth_config.CLIENT_ID" reads the
\* CLIENT_ID attribute outside the try block
InlineGate(cfg, req, vout, aout) ==
    IF req.path # "/api/messages"
    THEN GateResult(TRUE, NoResponse, FALSE, "", <<>>, 0, NoException)
    ELSE IF HeaderTruthy(req)
    THEN LET parts == Split(req.auth)
         IN  IF Len(parts) # 2 \/ parts[1] # <<"Bearer">>
             THEN GateResult(FALSE,
                      JSONResponse("error", <<"Invalid Authorization header format">>, 401),
                      FALSE, "", <<>>, 0, NoException)
             ELSE IF vout.kind = "ok"
             THEN GateResult(TRUE, NoResponse, TRUE, vout.id, <<parts[2]>>, 0, NoException)
             ELSE IF vout.kind = "ValueError"
             THEN GateResult(FALSE,
                      JSONResponse("error", <<"JWT validation failed: ", vout.msg>>, 401),
                      FALSE, "", <<parts[2]>>, 0, NoException)
             ELSE GateResult(FALSE,
                      JSONResponse("error", <<"Authentication error: ", vout.msg>>, 401),
                      FALSE, "", <<parts[2]>>, 0, NoException)
    ELSE IF cfg.present /\ ~cfg.hasClientId
    THEN GateResult(FALSE, NoResponse, FALSE, "", <<>>, 0,
             [type |-> "AttributeError", msg |-> "object has no attribute 'CLIENT_ID'"])
    ELSE IF ~cfg.present \/ cfg.CLIENT_ID = <<>>
    THEN IF aout.kind = "ok"
         THEN GateResult(TRUE, NoResponse, TRUE, aout.id, <<>>, 1, NoException)
         ELSE GateResult(FALSE, NoResponse, FALSE, "", <<>>, 1,
                  [type |-> aout.kind, msg |-> aout.msg])
    ELSE GateResult(FALSE,
             JSONResponse("error", <<"Authorization header not found">>, 401),
             FALSE, "", <<>>, 0, NoException)

\* fastapi_simple.jwt_auth_middleware: "token_validator = JwtTokenValidator(auth_config)"
\* runs for every request to /api/messages
InlineBuilt(req) == IF req.path = "/api/messages" THEN 1 ELSE 0

\* a step of the variant's request; nothing else of the model moves
VariantStep(v) ==
    /\ variant' = v
    /\ UNCHANGED <<LOG_JWT_TOKENS, auth_config, token_validator, pc, request, claims_identity,
                   gate, error_response, validatorSaid, response, escaped, validateCalls,
                   anonCalls, idWrites, handlerRuns, bodyReads, body, adapter,
                   processorCalls, procSeen, procOutcome, log, probe, conc>>

\* a request arrives at one of the servers
VariantReceive ==
    /\ variant.pc = "idle"
    /\ \E sv \in Servers, p \in VariantPaths, ha \in BOOLEAN, h \in VariantHeaders,
          b \in VariantBodies :
          /\ ~ha => h = <<>>
          /\ p # "/api/messages" => b = <<>>
          /\ VariantStep([NoVariant EXCEPT
                 !.server = sv, !.pc = "received", !.body = b,
                 !.request = [path |-> p,
                              method |-> IF p = "/api/messages" THEN "POST" ELSE "GET",
                              hasAuth |-> ha, auth |-> h]])

\* the variant's state once its gate returned r
AfterGate(r, ref, built) ==
    [variant EXCEPT
        !.gateRan = TRUE, !.result = r, !.ref = ref, !.built = built,
        !.identity = IF r.setsId THEN [set |-> TRUE, id |-> r.id] ELSE @,
        !.response = r.response,
        !.pc = IF r.raised # NoException \/ ~r.success THEN "done" ELSE "routing"]

\* app_factory: jwt_auth_middleware with the JWTAuthMiddleware built at startup
AppFactoryMiddleware ==
    /\ variant.pc = "received"
    /\ variant.server = "app_factory"
    /\ \E vout \in ValidateOutcomes, aout \in AnonOutcomes :
          LET r == AuthenticateRequest(auth_config, token_validator, variant.request, vout, aout)
          IN  VariantStep(AfterGate(r, r, 0))

\* fastapi_simple: the inline jwt_auth_middleware; ref is what JWTAuthMiddleware
\* gives for the same request, configuration and validator behaviour
SimpleMiddleware ==
    /\ variant.pc = "received"
    /\ variant.server = "fastapi_simple"
    /\ \E vout \in ValidateOutcomes, aout \in AnonOutcomes :
          VariantStep(AfterGate(
              InlineGate(auth_config, variant.request, vout, aout),
              AuthenticateRequest(auth_config, MakeValidator(auth_config), variant.request,
                                  vout, aout),
              InlineBuilt(variant.request)))

\* fastapi_agent: logging_middleware calls call_next for every request
LoggingMiddleware ==
    /\ variant.pc = "received"
    /\ variant.server = "fastapi_agent"
    /\ VariantStep([variant EXCEPT !.pc = "routing"])

\* start_server: auth_middleware calls call_next for every request
StartServerMiddleware ==
    /\ variant.pc = "received"
    /\ variant.server = "start_server"
    /\ VariantStep([variant EXCEPT !.pc = "routing"])

\* GET /health of each variant
VariantHealth ==
    /\ variant.pc = "routing"
    /\ variant.request.path = "/health"
    /\ VariantStep([variant EXCEPT !.pc = "done",
                                   !.response = JSONResponse("status", <<"healthy">>, 200)])

\* handle_message of MessageHandler and handle_messages of fastapi_simple, up to
\* "await start_agent_process"
HandleMessages ==
    /\ variant.pc = "routing"
    /\ variant.server \in {"app_factory", "fastapi_simple"}
    /\ variant.request.path = "/api/messages"
    /\ VariantStep(
          IF GetRequestBodyCheck(variant.body).raises
          THEN [variant EXCEPT !.pc = "done", !.response = GetRequestBodyCheck(variant.body).exc]
          ELSE [variant EXCEPT !.pc = "processing", !.processorCalls = @ + 1])

\* fastapi_agent.handle_messages up to "await adapter.process_activity": the body
\* is parsed, and Activity(**activity_data) needs a JSON object
AgentHandleMessages ==
    /\ variant.pc = "routing"
    /\ variant.server = "fastapi_agent"
    /\ variant.request.path = "/api/messages"
    /\ VariantStep(
          IF variant.body = <<>>
          THEN [variant EXCEPT !.pc = "done",
                               !.response = HTTPException(400, <<"Request body is empty">>)]
          ELSE IF ~Utf8Ok(variant.body)
          THEN [variant EXCEPT !.pc = "done",
                               !.response = HandlerException("UnicodeDecodeError")]
          ELSE IF ~JsonLoads(variant.body).ok
          THEN [variant EXCEPT !.pc = "done",
                               !.response = HTTPException(400, <<"Invalid JSON: ", "JSONDecodeError">>)]
          ELSE IF JsonLoads(variant.body).value # <<"dict">>
          THEN [variant EXCEPT !.pc = "done", !.response = HandlerException("TypeError")]
          ELSE [variant EXCEPT !.pc = "processing", !.processorCalls = @ + 1])

\* start_server.messages_endpoint: start_agent_process is called with the request
StartServerMessages ==
    /\ variant.pc = "routing"
    /\ variant.server = "start_server"
    /\ variant.request.path = "/api/messages"
    /\ VariantStep([variant EXCEPT !.pc = "processing", !.processorCalls = @ + 1])

\* the processor returns
VariantProcessorReturns ==
    /\ variant.pc = "processing"
    /\ \E res \in ProcessorResults :
          VariantStep([variant EXCEPT
              !.pc = "done",
              !.response =
                  IF variant.server \in {"app_factory", "fastapi_simple"} THEN ConvertResponse(res)
                  ELSE IF variant.server = "fastapi_agent"
                  THEN JSONResponse("status", <<"processed">>, 200)
                  ELSE [status |-> res.status, key |-> "raw", text |-> res.body]])

\* the processor raises
VariantProcessorRaises ==
    /\ variant.pc = "processing"
    /\ \E m \in Messages :
          VariantStep([variant EXCEPT
              !.pc = "done",
              !.response = IF variant.server = "start_server" THEN HTTPException(500, <<m>>)
                           ELSE HandlerException(m)])

\* the response is sent
VariantComplete ==
    /\ variant.pc = "done"
    /\ VariantStep(NoVariant)

VariantNext ==
    \/ VariantReceive
    \/ AppFactoryMiddleware
    \/ SimpleMiddleware
    \/ LoggingMiddleware
    \/ StartServerMiddleware
    \/ VariantHealth
    \/ HandleMessages
    \/ AgentHandleMessages
    \/ StartServerMessages
    \/ VariantProcessorReturns
    \/ VariantProcessorRaises
    \/ VariantComplete

\* the four servers, each with the configuration loaded at startup
VariantSpec == Init /\ [][VariantNext]_vars

-----------------------------------------------------------------------------
(* Several requests to POST /api/messages in flight at once in the application
   of create_app: each coroutine runs from one await to the next, and at an
   await any other request may run *)

\* a step of the requests in flight; nothing else of the model moves
ConcStep(c) ==
    /\ conc' = c
    /\ UNCHANGED <<LOG_JWT_TOKENS, auth_config, token_validator, pc, request, claims_identity,
                   gate, error_response, validatorSaid, response, escaped, validateCalls,
                   anonCalls, idWrites, handlerRuns, bodyReads, body, adapter,
                   processorCalls, procSeen, procOutcome, log, probe, variant>>

\* the request of id r as authenticate_request sees it
ConcRequest(r) ==
    [path |-> "/api/messages", method |-> "POST", hasAuth |-> conc[r].hasAuth,
     auth |-> IF conc[r].hasAuth THEN <<"Bearer", " ", "t">> ELSE <<>>]

\* variant in which the gate keeps the identity in one place for all requests
StateOf_Shared(r) == 1

\* request.state of request r: the state object of that request
StateOf(r) == r

\* a request arrives; the framework gives it a fresh request.state
ConcReceive ==
    \E r \in RequestIds, ha \in BOOLEAN :
        /\ conc[r].pc = "idle"
        /\ ConcStep([conc EXCEPT ![r] = [IdleRequest EXCEPT !.pc = "received", !.hasAuth = ha]])

\* jwt_auth_middleware up to "await call_next": authenticate_request has no await
\* of its own (validate_token is called, not awaited)
ConcGate ==
    \E r \in RequestIds, vout \in ValidateOutcomes, aout \in AnonOutcomes :
        /\ conc[r].pc = "received"
        /\ LET g == AuthenticateRequest(auth_config, token_validator, ConcRequest(r), vout, aout)
               id == [set |-> TRUE, id |-> g.id]
           IN  ConcStep(
                   IF g.setsId
                   THEN [conc EXCEPT ![r].attached = id, ![r].pc = "routing",
                                     ![StateOf(r)].state = id]
                   ELSE [conc EXCEPT ![r].pc = "done"])

\* handle_message up to "await request.body()"
ConcRoute ==
    \E r \in RequestIds :
        /\ conc[r].pc = "routing"
        /\ ConcStep([conc EXCEPT ![r].pc = "reading"])

\* handle_message from the body's arrival to "await start_agent_process":
\* _create_adapter builds the request's own adapter from its request.state
ConcCreateAdapter ==
    \E r \in RequestIds :
        /\ conc[r].pc = "reading"
        /\ ConcStep([conc EXCEPT
               ![r].adapter = CreateAdapter(conc[StateOf(r)].state, <<"{", "}">>),
               ![r].pc = "processing"])

\* the processor reads the identity from the adapter it was given
ConcProcess ==
    \E r \in RequestIds :
        /\ conc[r].pc = "processing"
        /\ ConcStep([conc EXCEPT
               ![r].procSaw = AdapterGet(conc[r].adapter, "claims_identity"),
               ![r].pc = "done"])

\* the response is sent and the request, its state and its adapter are dropped
ConcComplete ==
    \E r \in RequestIds :
        /\ conc[r].pc = "done"
        /\ ConcStep([conc EXCEPT ![r] = IdleRequest])

ConcNext ==
    \/ ConcReceive
    \/ ConcGate
    \/ ConcRoute
    \/ ConcCreateAdapter
    \/ ConcProcess
    \/ ConcComplete

\* the application of create_app serving NumRequests requests at a time
ConcSpec == Init /\ [][ConcNext]_vars

-----------------------------------------------------------------------------
(* Properties *)

IngestionPath == "/api/messages"

GateDone == gate # "none"

\* "Bearer", one space, one non-empty token without spaces
WellFormedBearer(h) ==
    /\ Len(h) >= 3
    /\ h[1] = "Bearer"
    /\ h[2] = " "
    /\ \A i \in 3..Len(h) : h[i] # " "

InvalidFormatResponse == JSONResponse("error", <<"Invalid Authorization header format">>, 401)

\* C1: for a request whose path is not exactly /api/messages, whatever its
\* Authorization header, authenticate_request returns (True, None), never calls the
\* token validator and attaches no identity to request.state.
C1_OtherRoutesBypass ==
    (GateDone /\ request.path # IngestionPath) =>
        /\ gate = "success"
        /\ error_response = NoResponse
        /\ escaped = NoException
        /\ validateCalls = <<>>
        /\ anonCalls = 0
        /\ validatorSaid = NotCalled
        /\ ~claims_identity.set
        /\ idWrites = 0

C1_Witness ==
    /\ gate = "success"
    /\ request.path = "/api/messages/"
    /\ request.hasAuth
    /\ request.auth = <<"bearer", " ", " ", "t">>
    /\ auth_config.CLIENT_ID # <<>>

\* C2: a request to /api/messages without an Authorization header, when no client
\* identifier is configured (configuration absent, without CLIENT_ID, or with an empty
\* CLIENT_ID) and get_anonymous_claims did not itself raise, passes the gate with the
\* validator's anonymous identity attached.
C2_AnonymousWhenNoClientId ==
    (/\ GateDone
     /\ request.path = IngestionPath
     /\ ~request.hasAuth
     /\ NoClientId(auth_config)
     /\ ~(anonCalls > 0 /\ validatorSaid.kind # "ok")) =>
        /\ gate = "success"
        /\ claims_identity = [set |-> TRUE, id |-> AnonymousIdentity]

\* C3: a request to /api/messages without an Authorization header, when a non-empty
\* client identifier is configured, is rejected with 401 and
\* {"error": "Authorization header not found"}, and no identity is attached.
C3_MissingHeaderRejected ==
    (/\ GateDone
     /\ request.path = IngestionPath
     /\ ~request.hasAuth
     /\ auth_config.present /\ auth_config.hasClientId /\ auth_config.CLIENT_ID # <<>>) =>
        /\ gate = "rejected"
        /\ error_response = JSONResponse("error", <<"Authorization header not found">>, 401)
        /\ response = error_response
        /\ ~claims_identity.set
        /\ idWrites = 0

C3_Witness ==
    /\ gate = "rejected"
    /\ request.path = IngestionPath
    /\ ~request.hasAuth
    /\ auth_config.CLIENT_ID = <<"app-id">>
    /\ response.status = 401

\* C4: every Authorization header on /api/messages that is not "Bearer", one space
\* and one non-empty token without spaces (the empty string included) is rejected with
\* 401 and {"error": "Invalid Authorization header format"}, whatever client identifier
\* is configured (stated here for the configurations that are present, with or
\* without a client identifier).
C4_MalformedHeaderRejected ==
    (/\ GateDone
     /\ request.path = IngestionPath
     /\ request.hasAuth
     /\ ~WellFormedBearer(request.auth)
     /\ auth_config.present) =>
        /\ gate = "rejected"
        /\ error_response = InvalidFormatResponse
        /\ response = InvalidFormatResponse

\* C5: for a well-formed header "Bearer <token>" on /api/messages, when validate_token
\* raises ValueError(m) the gate rejects with 401 and
\* {"error": "JWT validation failed: m"}, and no identity is attached.
C5_ValueErrorRejected ==
    (/\ GateDone
     /\ request.path = IngestionPath
     /\ request.hasAuth
     /\ WellFormedBearer(request.auth)
     /\ validatorSaid.kind = "ValueError") =>
        /\ gate = "rejected"
        /\ error_response = JSONResponse("error",
               <<"JWT validation failed: ", validatorSaid.msg>>, 401)
        /\ response = error_response
        /\ ~claims_identity.set
        /\ idWrites = 0

C5_Witness ==
    /\ gate = "rejected"
    /\ request.auth = <<"Bearer", " ", "t">>
    /\ validatorSaid = [kind |-> "ValueError", id |-> "", msg |-> "expired"]
    /\ validateCalls = << <<"t">> >>

\* C6: whatever fault the token validator raises on a request to /api/messages (in
\* validate_token, in get_anonymous_claims, or because no validator was constructed),
\* no exception escapes authenticate_request and every fault other than ValueError is
\* answered 401 with {"error": "Authentication error: <message>"}.
C6_FaultsBecome401 ==
    (GateDone /\ request.path = IngestionPath) =>
        /\ escaped = NoException
        /\ gate # "raised"
        /\ (validatorSaid.kind = "Exception" =>
               /\ gate = "rejected"
               /\ response = JSONResponse("error",
                      <<"Authentication error: ", validatorSaid.msg>>, 401))
        /\ (token_validator = "None" =>
               /\ gate = "rejected"
               /\ response.status = 401
               /\ response.key = "error")

\* C7: the identity validate_token returned for an accepted token is the value of
\* request.state.claims_identity, and it is the value the adapter's
\* get('claims_identity') gives the activity processor.
C7_IdentityForwardedUnchanged ==
    (validateCalls # <<>> /\ validatorSaid.kind = "ok") =>
        /\ claims_identity = [set |-> TRUE, id |-> validatorSaid.id]
        /\ (processorCalls > 0 =>
               /\ adapter.hasIdentity
               /\ adapter.identity = validatorSaid.id
               /\ procSeen = validatorSaid.id)

C7_Witness ==
    /\ processorCalls = 1
    /\ validateCalls = << <<"t", "Bearer">> >>
    /\ validatorSaid.kind = "ok"
    /\ validatorSaid.id = "bob"
    /\ procSeen = "bob"

\* C8: in the application built by create_app, a request the gate rejected is answered
\* with the gate's error response at once: no route handler runs, the body is not
\* read, no adapter is created and the activity processor is not called.
C8_RejectionShortCircuits ==
    gate = "rejected" =>
        /\ pc = "done"
        /\ response = error_response
        /\ response.status = 401
        /\ handlerRuns = 0
        /\ bodyReads = 0
        /\ ~adapter.created
        /\ processorCalls = 0
        /\ procSeen = "unseen"

C8_Witness ==
    /\ gate = "rejected"
    /\ pc = "done"
    /\ request.method = "POST"
    /\ request.auth = <<"Bearer", " ", "t">>
    /\ validatorSaid.kind = "Exception"
    /\ response.status = 401

\* C9: on /api/messages, once the gate has finished, request.state holds an identity
\* exactly when the gate returned success; the identity is written at most once per
\* request; and the processor is never called for a request the gate rejected.
C9_IdentityIffSuccess ==
    (GateDone /\ request.path = IngestionPath) =>
        /\ (claims_identity.set <=> gate = "success")
        /\ idWrites <= 1
        /\ (claims_identity.set <=> idWrites = 1)
        /\ (processorCalls > 0 => gate = "success" /\ adapter.hasIdentity)

C9_Witness ==
    /\ request.path = IngestionPath
    /\ gate = "success"
    /\ claims_identity = [set |-> TRUE, id |-> AnonymousIdentity]
    /\ idWrites = 1
    /\ processorCalls = 1

\* C10: a POST /api/messages that passed the gate and whose body is empty is answered
\* 400 with detail "Request body is empty"; no adapter is created and
\* start_agent_process is not called.
C10_EmptyBodyRejected ==
    (bodyReads > 0 /\ body = <<>>) =>
        /\ gate = "success"
        /\ pc = "done"
        /\ response = HTTPException(400, <<"Request body is empty">>)
        /\ ~adapter.created
        /\ processorCalls = 0
        /\ procSeen = "unseen"

C10_Witness ==
    /\ bodyReads = 1
    /\ body = <<>>
    /\ request.method = "POST"
    /\ request.path = IngestionPath
    /\ gate = "success"
    /\ response.status = 400

\* the request reached MessageHandler.handle_message and its body was read, not empty
PassedWithBody ==
    /\ gate = "success"
    /\ request.path = IngestionPath
    /\ request.method = "POST"
    /\ bodyReads > 0
    /\ body # <<>>

\* C11: for a POST /api/messages that passed the gate and has a non-empty body,
\* start_agent_process is called exactly once before the response is produced: never
\* zero times, never twice, and not again after it raised.
C11_ProcessorCalledOnce ==
    /\ processorCalls <= 1
    /\ (PassedWithBody => processorCalls = 1)
    /\ (procOutcome.kind # "none" => processorCalls = 1)
    /\ ((PassedWithBody /\ pc = "done") =>
           /\ procOutcome.kind \in {"returned", "raised"}
           /\ response # NoResponse)

C11_Witness ==
    /\ PassedWithBody
    /\ pc = "done"
    /\ procOutcome.kind = "raised"
    /\ processorCalls = 1

\* C12: for every result start_agent_process returns: with a non-empty body the response
\* carries the JSON-decoded body and the result's status code; without a body
\* attribute or with an empty body it is {"status": "ok"} with status 200.
C12_ResultTranslated ==
    procOutcome.kind = "returned" =>
        IF procOutcome.hasBody /\ procOutcome.body # <<>>
        THEN /\ response.status = procOutcome.status
             /\ response.key = "json"
             /\ response.text = JsonLoads(procOutcome.body).value
        ELSE response = JSONResponse("status", <<"ok">>, 200)

\* C13: when start_agent_process raises with message m the response is 500 with detail
\* "Internal server error: m", and a 500 is produced on no other path: not by the
\* gate, not by reading the body, not by translating the processor's result.
C13_Only500FromProcessor ==
    /\ (procOutcome.kind = "raised" => response = HandlerException(procOutcome.msg))
    /\ (response.status = 500 => procOutcome.kind = "raised")

\* C14: a POST /api/messages that passed the gate and whose non-empty body is not valid
\* JSON is answered 400 with detail "Invalid JSON: <message>", and
\* start_agent_process is not called.
C14_InvalidJsonRejected ==
    (PassedWithBody /\ ~JsonLoads(body).ok) =>
        /\ processorCalls = 0
        /\ (pc = "done" =>
               /\ response.status = 400
               /\ response.key = "detail"
               /\ response.text # <<>>
               /\ response.text[1] = "Invalid JSON: ")

\* C15: GET /health is answered 200 with the fixed healthy payload for every
\* Authorization header and every client-identifier configuration; the gate never
\* rejects it and the token validator is never called for it.
C15_HealthAlwaysOk ==
    (request.path = "/health" /\ request.method = "GET") =>
        /\ gate \in {"none", "success"}
        /\ escaped = NoException
        /\ validateCalls = <<>>
        /\ anonCalls = 0
        /\ (pc = "done" => response = JSONResponse("status", HealthPayload, 200))
        /\ (pc \in {"received", "routing", "done"})

C15_Witness ==
    /\ pc = "done"
    /\ request.path = "/health"
    /\ request.method = "GET"
    /\ request.hasAuth
    /\ request.auth = <<"bearer", " ", "t">>
    /\ auth_config.CLIENT_ID # <<>>
    /\ response.status = 200

\* the request carried a header whose name is key in some casing
HeaderPresent(wire, key) == \E i \in 1..Len(wire) : Lower(wire[i].k) = Lower(key)

\* the value of the first header of the request whose name is key in some casing
HeaderValue(wire, key) ==
    LET first == CHOOSE i \in 1..Len(wire) :
                    /\ Lower(wire[i].k) = Lower(key)
                    /\ \A j \in 1..(i - 1) : Lower(wire[j].k) # Lower(key)
    IN  wire[first].v

HeaderOps == {"get", "getitem", "contains"}

\* the call of that name on the adapter's headers
HeaderOp(op, wire, key) ==
    IF op = "get" THEN CIGet(AdapterHeaders(wire), key)
    ELSE IF op = "getitem" THEN CIGetItem(AdapterHeaders(wire), key)
    ELSE CIContains(AdapterHeaders(wire), key)

\* C16: for a header present in the request, get, [] and in on the adapter's
\* headers give the header's value, or present, under every casing of its name,
\* and the same answer for every two casings
C16_HeaderLookupIgnoresCase ==
    (probe.built /\ probe.op \in HeaderOps /\ HeaderPresent(probe.wire, probe.key)) =>
        /\ probe.result =
              IF probe.op = "contains" THEN Returned("bool", "", <<>>, TRUE)
              ELSE Returned("value", HeaderValue(probe.wire, probe.key), <<>>, FALSE)
        /\ \A other \in Casings(Lower(probe.key)) :
              HeaderOp(probe.op, probe.wire, other) = probe.result

C16_Witness ==
    /\ probe.built
    /\ probe.op = "getitem"
    /\ HeaderPresent(probe.wire, probe.key)
    /\ \A i \in 1..Len(probe.wire) : probe.wire[i].k # probe.key
    /\ probe.key # Lower(probe.key)
    /\ probe.result.kind = "value"

\* C17: the adapter's headers always have a Content-Type entry, and when the
\* request carried none in any casing its value is application/json
C17_ContentTypeDefaulted ==
    (probe.built /\ probe.op \in HeaderOps /\ Lower(probe.key) = content_type) =>
        IF probe.op = "contains" THEN probe.result.flag
        ELSE /\ probe.result.kind = "value"
             /\ probe.result.str # "None"
             /\ ~HeaderPresent(probe.wire, content_type) => probe.result.str = "application/json"

C17_Witness ==
    /\ probe.built
    /\ probe.op = "get"
    /\ Lower(probe.key) = content_type
    /\ probe.wire # <<>>
    /\ ~HeaderPresent(probe.wire, content_type)
    /\ probe.result.str = "application/json"

\* C18: on an adapter built from a buffer of valid UTF-8 JSON, read gives the
\* buffer, text its decoding and json the structure it decodes to, whatever was
\* called before, with the buffer kept and no read of the request stream
C18_BodyReadsRepeatable ==
    (probe.built /\ JsonLoads(probe.given).ok) =>
        /\ probe.body = probe.given
        /\ probe.streamReads = 0
        /\ probe.op = "read" => probe.result = Returned("bytes", "", probe.given, FALSE)
        /\ probe.op = "text" => probe.result = Returned("text", "", Utf8Decode(probe.given), FALSE)
        /\ probe.op = "json" =>
              /\ probe.result = Returned("json", "", JsonLoads(probe.given).value, FALSE)
              /\ probe.result.seq = JsonLoadsText(AdapterText(AdapterRead(probe.body).body).result.seq).value

C18_Witness ==
    /\ probe.built
    /\ JsonLoads(probe.given).ok
    /\ probe.prior = "json"
    /\ probe.op = "read"
    /\ probe.result.seq = <<"1", "1">>

\* C19: on an adapter whose buffer is not valid UTF-8 or not valid JSON, json
\* raises the decoding error, gives no value, and the buffer is kept
C19_BadJsonRaises ==
    (probe.built /\ ~JsonLoads(probe.given).ok) =>
        /\ probe.body = probe.given
        /\ probe.op = "json" =>
              /\ probe.result.kind = "raise"
              /\ probe.result.str = JsonLoads(probe.given).value[1]
              /\ probe.result.seq = <<>>

C19_Witness ==
    /\ probe.built
    /\ probe.given = <<"{", "1">>
    /\ probe.op = "json"
    /\ probe.result.kind = "raise"
    /\ probe.result.str = "JSONDecodeError"


\* logging levels in the order of the logging module
LevelNum(level) ==
    IF level = "DEBUG" THEN 10
    ELSE IF level = "INFO" THEN 20
    ELSE IF level = "WARNING" THEN 30
    ELSE 40

\* t occurs in a as a run of consecutive characters
IsSubseq(t, a) == \E i \in 0..(Len(a) - Len(t)) : SubSeq(a, i + 1, i + Len(t)) = t

\* the tokens a header carries: its non-empty parts after the scheme
SentTokens(h) == {Split(h)[i] : i \in {j \in 2..Len(Split(h)) : Split(h)[j] # <<>>}}

RecordHasToken(rec, h) == \E token \in SentTokens(h) : IsSubseq(Chars(token), rec.arg)

\* C20: with LOG_JWT_TOKENS off, no record the gate logs at level INFO or above
\* contains a raw token or the decoded claims, for every request, those rejected
\* for a malformed Authorization header included.
C20_NoTokenAtInfoOrAbove ==
    ~LOG_JWT_TOKENS =>
        \A i \in 1..Len(log) :
            LevelNum(log[i].level) >= LevelNum("INFO") =>
                /\ log[i].claims = ""
                /\ ~(request.hasAuth /\ RecordHasToken(log[i], request.auth))

\* C21: with LOG_JWT_TOKENS off, no record the gate logs, at any level, contains
\* the complete token or the decoded claims: debug records hold at most a
\* truncated preview of the token.
C21_OnlyTruncatedPreviews ==
    ~LOG_JWT_TOKENS =>
        \A i \in 1..Len(log) :
            /\ log[i].claims = ""
            /\ ~(request.hasAuth /\ WellFormedBearer(request.auth)
                    /\ RecordHasToken(log[i], request.auth))

\* the bodies of the gate's rejections: {"error": <text>}
RejectionTexts ==
    {<<"Authorization header not found">>, <<"Invalid Authorization header format">>}
    \cup {<<"JWT validation failed: ", m>> : m \in Messages}
    \cup {<<"Authentication error: ", m>> :
             m \in Messages \cup {"'NoneType' object has no attribute 'validate_token'"}}

\* C23: every response the gate returns for a rejection has status 401 and a
\* body with the single key "error" and one of the four message forms; the gate
\* returns no 400, 403 or 500, and a rejected request is answered with the
\* gate's response.
C23_RejectionsAre401 ==
    /\ error_response # NoResponse =>
          /\ gate = "rejected"
          /\ error_response.status = 401
          /\ error_response.key = "error"
          /\ error_response.text \in RejectionTexts
    /\ gate = "rejected" =>
          /\ error_response # NoResponse
          /\ response = error_response

C23_Witness ==
    /\ gate = "rejected"
    /\ ~request.hasAuth
    /\ auth_config.CLIENT_ID = <<"app-id">>
    /\ response = JSONResponse("error", <<"Authorization header not found">>, 401)

\* C29: when the processor returns a result whose status is 400 or above, with
\* or without a body, the response has that same status, never 200.
C29_FailureStatusKept ==
    (/\ pc = "done"
     /\ procOutcome.kind = "returned"
     /\ procOutcome.status >= 400
     /\ (~procOutcome.hasBody \/ procOutcome.body = <<>> \/ JsonLoads(procOutcome.body).ok)) =>
        response.status = procOutcome.status

\* C25: an adapter built while request.state holds no identity is constructed,
\* with an empty data bag and one warning logged; the processor is still called
\* with it, and get('claims_identity') gives None.
C25_NoIdentityStillProcessed ==
    (probe.built /\ ~probe.state.set) =>
        /\ probe.adapter.created
        /\ probe.adapter.configured
        /\ ~probe.adapter.hasIdentity
        /\ probe.log = << LogRecord("WARNING", "No claims_identity found in request state",
                             <<>>, "", "") >>
        /\ probe.op \in {"data.get", "start_agent_process"} => probe.result.str = "None"
        /\ AdapterGet(probe.adapter, "claims_identity") = "None"

C25_Witness ==
    /\ probe.built
    /\ ~probe.state.set
    /\ probe.op = "start_agent_process"
    /\ probe.result = Returned("value", "None", <<>>, TRUE)

\* C30: when the request carries a Content-Type header, written in any casing,
\* with value v, the adapter's headers give v under every casing of the name:
\* the application/json default never replaces it.
C30_SuppliedContentTypeKept ==
    (/\ probe.built
     /\ probe.op \in HeaderOps
     /\ Lower(probe.key) = content_type
     /\ HeaderPresent(probe.wire, content_type)) =>
        /\ probe.op # "contains" =>
              /\ probe.result.str = HeaderValue(probe.wire, content_type)
              /\ probe.result.str # "application/json"
        /\ \A other \in Casings(content_type) :
              CIGet(AdapterHeaders(probe.wire), other).str = HeaderValue(probe.wire, content_type)

C30_Witness ==
    /\ probe.built
    /\ probe.wire = << [k |-> <<"C", "O", "T", "Y">>, v |-> "text/plain"] >>
    /\ probe.op = "get"
    /\ probe.key = Content_Type
    /\ probe.result.str = "text/plain"

\* the variant ran an Auth Gate for its request
GatedServers == {"app_factory", "fastapi_simple"}

\* C24: one token validator is built at startup from the auth configuration and
\* the gate uses it for every request; no request builds a validator of its own.
C24_OneValidatorInstance ==
    /\ auth_config.present => token_validator = "JwtTokenValidator"
    /\ variant.gateRan => variant.built = 0

\* C26: the gate calls validate_token only for a header of the exact form
\* "Bearer <token>" with a non-empty token, with exactly that token, at most once
\* per request; for "Bearer " with an empty token it does not call it; in
\* JWTAuthMiddleware and in the inline middleware of fastapi_simple alike.
C26_ValidatorCalledOnlyForBearerToken ==
    (variant.server \in GatedServers /\ variant.gateRan) =>
        /\ Len(variant.result.vcalls) <= 1
        /\ variant.result.vcalls # <<>> =>
              /\ variant.request.path = IngestionPath
              /\ WellFormedBearer(variant.request.auth)
              /\ variant.result.vcalls =
                    << SubSeq(variant.request.auth, 3, Len(variant.request.auth)) >>
        /\ variant.request.auth = <<"Bearer", " ">> => variant.result.vcalls = <<>>

\* C27: for every request, configuration and validator behaviour the inline
\* middleware of fastapi_simple and JWTAuthMiddleware decide alike: the same
\* accept or reject, the same status and error body, the same identity attached.
C27_GatesEquivalent ==
    (/\ variant.server = "fastapi_simple"
     /\ variant.gateRan
     /\ auth_config.present
     /\ auth_config.hasClientId) =>
        /\ variant.result.success = variant.ref.success
        /\ variant.result.raised = variant.ref.raised
        /\ variant.result.response = variant.ref.response
        /\ variant.result.setsId = variant.ref.setsId
        /\ variant.result.id = variant.ref.id

\* C28: in every server variant the processor is called for a request only after
\* the Auth Gate ran and accepted it; with a client identifier configured a
\* request without an Authorization header never reaches the processor.
C28_ProcessorOnlyAfterGate ==
    /\ variant.processorCalls > 0 =>
          /\ variant.gateRan
          /\ variant.result.success
          /\ variant.result.raised = NoException
    /\ (~NoClientId(auth_config) /\ ~variant.request.hasAuth) => variant.processorCalls = 0

\* the adapter and the processor of request r hold what the gate attached to r
OwnIdentity(r) ==
    /\ conc[r].state = conc[r].attached
    /\ conc[r].adapter.created =>
          /\ conc[r].attached.set
          /\ conc[r].adapter.hasIdentity
          /\ conc[r].adapter.identity = conc[r].attached.id
    /\ conc[r].procSaw # "unseen" => conc[r].procSaw = conc[r].attached.id

\* C22: with several requests interleaving at their awaits, each request's
\* adapter carries exactly the identity the gate attached to that same request,
\* whatever the others do, and no step changes the auth configuration or the
\* validator, the only state the requests share.
C22_RequestsIsolated ==
    /\ [](\A r \in RequestIds : OwnIdentity(r))
    /\ [][auth_config' = auth_config /\ token_validator' = token_validator]_vars

C22_Witness ==
    /\ \A r \in RequestIds : conc[r].pc \in {"processing", "done"}
    /\ conc[1].procSaw = "alice"
    /\ conc[2].adapter.identity = "bob"
    /\ conc[1].adapter.created

====
